---- MODULE Spec2Model ----
(***************************************************************************)
(* A model of specviz/widgets/linelists_window.py: the color-to-name       *)
(* resolution and the cell cache of LineListTableModel, the comparator of  *)
(* SortModel, and the wavelength-range dialog of LineListsWindow.          *)
(*                                                                         *)
(* Texts (cell texts, labels) are sequences of one-character strings, so   *)
(* that str(), float() and the code-point comparison of Python strings are *)
(* computed character by character.                                        *)
(***************************************************************************)
EXTENDS Integers, Sequences, FiniteSets, TLC

VARIABLES
    \* ---- color resolution (one QColor cell) ----
    cell,            \* the QColor cell being converted, as <<r, g, b>>
    key,             \* the name LineListTableModel.__init__ stored for it
    \* ---- LineListTableModel ----
    linelist,        \* the source line list the model refers to (self._linelist)
    built_from,      \* the rows the source had when __init__ ran
    nrows,           \* self._nrows
    ncols,           \* self._ncols
    row_cells,       \* self._row_cells
    ret,             \* the last accessor call and what it returned (for the
                     \* two counts also "live", the number of rows the
                     \* source had when the call was made)
    \* ---- SortModel ----
    left_data,       \* left.data()
    right_data,      \* right.data()
    less_ret,        \* whether lessThan was called, and what it returned
    sort_column,     \* the texts of three cells of the column being sorted
    answers,         \* what lessThan returned for each pair of those cells
                     \* it was called with so far (<<>> before the call)
    \* ---- LineListsWindow ----
    quantity_bool,   \* how the installed astropy answers bool(Quantity)
    wave_range,      \* self.wave_range
    dialog,          \* the wavelength-range dialog while it is open
    tabWidget,       \* the texts of the tabs of self.tabWidget, in order
    plot_linelists,  \* self.plot_window.linelists
    wret             \* what the last window handler did: its name (op), the
                     \* range it called extract_range with, the rows it built
                     \* a table model from, the label or tabs it started from

colorVars  == <<cell, key>>
tableVars  == <<linelist, built_from, nrows, ncols, row_cells, ret>>
sortVars   == <<left_data, right_data, less_ret, sort_column, answers>>
windowVars == <<quantity_bool, wave_range, dialog, tabWidget, plot_linelists, wret>>
vars       == <<colorVars, tableVars, sortVars, windowVars>>

None == "<None>"        \* Python's None, where a str or a unit may stand
NoneText == "None"      \* str(None)
Idle == "idle"          \* a part of the program a specification does not run

Abs(x) == IF x < 0 THEN -x ELSE x

(***************************************************************************)
(* ID_COLORS and the closest-color search of LineListTableModel.__init__   *)
(***************************************************************************)

\* The dictionary ID_COLORS in insertion order, which is the order .items()
\* iterates in: name -> Qt.GlobalColor.
ID_COLORS ==
    << [name |-> "black",      color |-> "Qt.black"],
       [name |-> "red",        color |-> "Qt.red"],
       [name |-> "green",      color |-> "Qt.green"],
       [name |-> "blue",       color |-> "Qt.blue"],
       [name |-> "cyan",       color |-> "Qt.cyan"],
       [name |-> "magenta",    color |-> "Qt.magenta"],
       [name |-> "dark red",   color |-> "Qt.darkRed"],
       [name |-> "dark green", color |-> "Qt.darkGreen"],
       [name |-> "dark blue",  color |-> "Qt.darkBlue"] >>

\* QColor(orig_color): the RGB value Qt gives each global color.
QColor(orig_color) ==
    CASE orig_color = "Qt.black"     -> <<0, 0, 0>>
      [] orig_color = "Qt.red"       -> <<255, 0, 0>>
      [] orig_color = "Qt.green"     -> <<0, 255, 0>>
      [] orig_color = "Qt.blue"      -> <<0, 0, 255>>
      [] orig_color = "Qt.cyan"      -> <<0, 255, 255>>
      [] orig_color = "Qt.magenta"   -> <<255, 0, 255>>
      [] orig_color = "Qt.darkRed"   -> <<128, 0, 0>>
      [] orig_color = "Qt.darkGreen" -> <<0, 128, 0>>
      [] orig_color = "Qt.darkBlue"  -> <<0, 0, 128>>

\* dist = abs(orig_rgb.red() - r) + abs(orig_rgb.green() - g) + abs(orig_rgb.blue() - b)
ColorDist(orig_color, rgb) ==
    LET orig_rgb == QColor(orig_color)
    IN  Abs(orig_rgb[1] - rgb[1]) + Abs(orig_rgb[2] - rgb[2]) + Abs(orig_rgb[3] - rgb[3])

\* The mutant of CloserThan: "<=" lets a later palette entry win a tie.
CloserOrEqual(dist, min_dist) == dist <= min_dist

\* if dist < min_dist:
CloserThan(dist, min_dist) == dist < min_dist

\* The loop "for color_name, orig_color in ID_COLORS.items()" from entry i on,
\* carrying min_dist and result.
RECURSIVE ScanColors(_, _, _, _)
ScanColors(i, rgb, min_dist, result) ==
    IF i > Len(ID_COLORS) THEN result
    ELSE LET orig_color == ID_COLORS[i].color
             dist == ColorDist(orig_color, rgb)
         IN  IF CloserThan(dist, min_dist)
             THEN ScanColors(i + 1, rgb, dist, orig_color)
             ELSE ScanColors(i + 1, rgb, min_dist, result)

\* key = [k for k,value in ID_COLORS.items() if value == result][0]
\* (IndexError when no value equals result).
KeyOf(result) ==
    LET ks == SelectSeq(ID_COLORS, LAMBDA e : e.color = result)
    IN  IF ks = <<>> THEN "IndexError" ELSE ks[1].name

\* The branch "if isinstance(cell, QColor)": min_dist = 100000, result = cell.
ColorName(rgb) == KeyOf(ScanColors(1, rgb, 100000, rgb))

(***************************************************************************)
(* SpecColor: one QColor cell, converted once.                             *)
(***************************************************************************)

\* The channel values are sampled every ChannelStep, together with the
\* channel values of the palette, their midpoints and the values of the
\* documented example (250, 10, 10).
ChannelStep == 64

Channels ==
    {c \in 0..255 : c % ChannelStep = 0} \cup {0, 10, 127, 128, 191, 192, 250, 255}

ColorIdle == /\ cell = Idle
             /\ key = Idle

TableIdle == /\ linelist = Idle
             /\ built_from = Idle
             /\ nrows = 0
             /\ ncols = 0
             /\ row_cells = <<>>
             /\ ret = Idle

SortIdle == /\ left_data = Idle
            /\ right_data = Idle
            /\ less_ret = Idle
            /\ sort_column = Idle
            /\ answers = Idle

WindowIdle == /\ quantity_bool = Idle
              /\ wave_range = <<Idle, Idle>>
              /\ dialog = Idle
              /\ tabWidget = <<>>
              /\ plot_linelists = <<>>
              /\ wret = Idle

InitColor ==
    /\ cell \in Channels \X Channels \X Channels
    /\ key = "pending"
    /\ TableIdle /\ SortIdle /\ WindowIdle

\* cells.append(QVariant(key)) for the QColor cell.
ConvertColor ==
    /\ key = "pending"
    /\ key' = ColorName(cell)
    /\ UNCHANGED <<cell, tableVars, sortVars, windowVars>>

NextColor == ConvertColor

SpecColor == InitColor /\ [][NextColor]_vars

\* The palette index of a name (0 when the name is no palette name).
PaletteIndex(name) ==
    IF \E i \in 1..Len(ID_COLORS) : ID_COLORS[i].name = name
    THEN CHOOSE i \in 1..Len(ID_COLORS) : ID_COLORS[i].name = name
    ELSE 0

\* name is the first palette entry at minimal distance from rgb.
FirstNearest(name, rgb) ==
    LET i == PaletteIndex(name)
    IN  /\ i > 0
        /\ \A j \in 1..Len(ID_COLORS) :
              ColorDist(ID_COLORS[j].color, rgb) >= ColorDist(ID_COLORS[i].color, rgb)
        /\ \A j \in 1..(i - 1) :
              ColorDist(ID_COLORS[j].color, rgb) > ColorDist(ID_COLORS[i].color, rgb)

\* C1: the name stored for a QColor cell is the first palette entry (in the
\* order black, red, green, blue, cyan, magenta, dark red, dark green, dark
\* blue) whose sum of absolute channel differences to the cell is minimal;
\* each palette color resolves to its own name, and (250,10,10) to "red".
C1_NearestFirst ==
    key # "pending" =>
        /\ FirstNearest(key, cell)
        /\ \A i \in 1..Len(ID_COLORS) :
              cell = QColor(ID_COLORS[i].color) => key = ID_COLORS[i].name
        /\ cell = <<250, 10, 10>> => key = "red"

\* A converted cell at equal distance from two palette entries (black and
\* dark red are both 64 away), where the tie-break decides.
C1_Witness ==
    /\ key # "pending"
    /\ cell = <<64, 0, 0>>
    /\ key = "black"

(***************************************************************************)
(* SortModel.lessThan                                                      *)
(***************************************************************************)

DigitChars == <<"0", "1", "2", "3", "4", "5", "6", "7", "8", "9">>

Digits == {DigitChars[i] : i \in 1..10}

\* The value of a decimal digit.
DigitValue(c) == (CHOOSE i \in 1..10 : DigitChars[i] = c) - 1

\* ord(c), for the characters the modelled texts are made of. Python
\* compares str values by code point.
Ord(c) ==
    CASE c = "-" -> 45 [] c = "." -> 46
      [] c \in Digits -> 48 + DigitValue(c)
      [] c = "a" -> 97 [] c = "b" -> 98 [] c = "c" -> 99

RECURSIVE Pow10(_)
Pow10(n) == IF n = 0 THEN 1 ELSE 10 * Pow10(n - 1)

\* float() reading a run of digits of text t from position i on: the position
\* after the run, the digits' value and their number.
RECURSIVE ScanDigits(_, _, _, _)
ScanDigits(t, i, value, count) ==
    IF i <= Len(t) /\ t[i] \in Digits
    THEN ScanDigits(t, i + 1, 10 * value + DigitValue(t[i]), count + 1)
    ELSE [next |-> i, value |-> value, count |-> count]

\* float(t) for a text of the modelled characters: an optional sign, digits
\* with an optional decimal point and at least one digit, and nothing after
\* them; anything else raises ValueError (ok = FALSE). The value is
\* num / 10^exp. (Exponents, white space, "inf" and "nan" need characters
\* the modelled texts do not hold.)
Float(t) ==
    LET start == IF t # <<>> /\ t[1] = "-" THEN 2 ELSE 1
        whole == ScanDigits(t, start, 0, 0)
        dot   == whole.next <= Len(t) /\ t[whole.next] = "."
        frac  == IF dot THEN ScanDigits(t, whole.next + 1, whole.value, 0)
                        ELSE [next |-> whole.next, value |-> whole.value, count |-> 0]
        ok    == /\ frac.next = Len(t) + 1
                 /\ whole.count + frac.count > 0
    IN  [ok  |-> ok,
         num |-> IF start = 2 THEN -frac.value ELSE frac.value,
         exp |-> frac.count]

\* l < r for two floats num / 10^exp.
FloatLess(l, r) == l.num * Pow10(r.exp) < r.num * Pow10(l.exp)

\* a < b for two Python str values: the first differing character decides by
\* code point, and a proper prefix is smaller.
RECURSIVE StrLess(_, _)
StrLess(a, b) ==
    IF b = <<>> THEN FALSE
    ELSE IF a = <<>> THEN TRUE
    ELSE IF a[1] # b[1] THEN Ord(a[1]) < Ord(b[1])
    ELSE StrLess(Tail(a), Tail(b))

\* The mutant of lessThan: string comparison whatever the texts are.
lessThanAsText(left, right) == StrLess(left, right)

\* SortModel.lessThan on the two cell texts: the try block converts both and
\* compares the numbers; any exception falls back to comparing the texts.
lessThan(left, right) ==
    LET l == Float(left)
        r == Float(right)
    IN  IF l.ok /\ r.ok THEN FloatLess(l, r)
                        ELSE StrLess(left, right)

(***************************************************************************)
(* SpecSort: lessThan called once on a pair of cell texts.                 *)
(***************************************************************************)

\* The cell texts: every text of at most MaxTextLen characters of
\* SortAlphabet, and the texts of the documented examples.
MaxTextLen == 2

SortAlphabet == {"-", ".", "1", "2", "a"}

SampleTexts ==
    { <<"3", ".", "5">>, <<"1", "0">>, <<"1", "2">>, <<"a", "b", "c">>,
      <<"1", ".", "5">>, <<"-", ".", "5">>, <<"1", ".", "2", ".">>,
      <<"-", "1", "0">>, <<"0", "1", "0">>, <<"1", "0", "a">> }

SeqsUpTo(S, n) == UNION {[1..k -> S] : k \in 0..n}

Texts == SeqsUpTo(SortAlphabet, MaxTextLen) \cup SampleTexts

InitSort ==
    /\ left_data \in Texts
    /\ right_data \in Texts
    /\ less_ret = [called |-> FALSE, value |-> FALSE]
    /\ sort_column = Idle
    /\ answers = Idle
    /\ ColorIdle /\ TableIdle /\ WindowIdle

\* The proxy model calls lessThan(left, right) while sorting.
CallLessThan ==
    /\ ~less_ret.called
    /\ less_ret' = [called |-> TRUE, value |-> lessThan(left_data, right_data)]
    /\ UNCHANGED <<left_data, right_data, sort_column, answers,
                   colorVars, tableVars, windowVars>>

NextSort == CallLessThan

SpecSort == InitSort /\ [][NextSort]_vars

(***************************************************************************)
(* SpecOrder: the proxy model sorts a column, calling lessThan on pairs of *)
(* its cells. Three cells of the column are followed.                      *)
(***************************************************************************)

\* The cell texts of the column: digits and letters, so that a column holds
\* numbers, words, or both.
OrderAlphabet == {"1", "2", "a"}

OrderTexts == SeqsUpTo(OrderAlphabet, MaxTextLen)

\* The pairs of cells lessThan is called with: a cell with itself, and the
\* three pairs of a chain.
Compared == {<<1, 1>>, <<1, 2>>, <<2, 3>>, <<1, 3>>}

InitOrder ==
    /\ sort_column \in OrderTexts \X OrderTexts \X OrderTexts
    /\ answers = [p \in Compared |-> <<>>]
    /\ left_data = <<>>
    /\ right_data = <<>>
    /\ less_ret = [called |-> FALSE, value |-> FALSE]
    /\ ColorIdle /\ TableIdle /\ WindowIdle

\* lessThan(left, right) for the cells i and j of the column.
CompareCells(i, j) ==
    /\ answers[<<i, j>>] = <<>>
    /\ left_data' = sort_column[i]
    /\ right_data' = sort_column[j]
    /\ less_ret' = [called |-> TRUE, value |-> lessThan(sort_column[i], sort_column[j])]
    /\ answers' = [answers EXCEPT ![<<i, j>>] = <<lessThan(sort_column[i], sort_column[j])>>]
    /\ UNCHANGED <<sort_column, colorVars, tableVars, windowVars>>

NextOrder == \E p \in Compared : CompareCells(p[1], p[2])

SpecOrder == InitOrder /\ [][NextOrder]_vars

\* A text that reads as a number: after an optional leading "-", only digits
\* and at most one ".", with at least one digit.
Unsigned(t) == IF t # <<>> /\ t[1] = "-" THEN Tail(t) ELSE t

LooksNumeric(t) ==
    LET u == Unsigned(t)
    IN  /\ \A i \in 1..Len(u) : u[i] \in Digits \cup {"."}
        /\ Cardinality({i \in 1..Len(u) : u[i] = "."}) <= 1
        /\ \E i \in 1..Len(u) : u[i] \in Digits

\* The number a numeric text denotes, times 10^scale: each digit weighed by
\* its place relative to the decimal point.
RECURSIVE PlaceSum(_, _, _, _)
PlaceSum(u, i, point, scale) ==
    IF i > Len(u) THEN 0
    ELSE (IF u[i] = "." THEN 0
          ELSE IF i < point THEN DigitValue(u[i]) * Pow10(scale + point - 1 - i)
          ELSE DigitValue(u[i]) * Pow10(scale - (i - point)))
         + PlaceSum(u, i + 1, point, scale)

Scaled(t, scale) ==
    LET u == Unsigned(t)
        point == IF \E i \in 1..Len(u) : u[i] = "."
                 THEN CHOOSE i \in 1..Len(u) : u[i] = "."
                 ELSE Len(u) + 1
        v == PlaceSum(u, 1, point, scale)
    IN  IF u # t THEN -v ELSE v

\* a precedes b in the order of their code-point sequences.
CodePointLess(a, b) ==
    \/ /\ Len(a) < Len(b)
       /\ \A i \in 1..Len(a) : a[i] = b[i]
    \/ \E k \in 1..Len(a) :
          /\ k <= Len(b)
          /\ \A i \in 1..(k - 1) : a[i] = b[i]
          /\ Ord(a[k]) < Ord(b[k])

\* C5: lessThan returns the numeric comparison when both cell texts read as
\* numbers and the code-point comparison of the texts otherwise, and always
\* returns a boolean (it never raises); "3.5" is less than "10" and "12" is
\* less than "abc".
C5_NumericElseText ==
    less_ret.called =>
        /\ less_ret.value \in BOOLEAN
        /\ (LooksNumeric(left_data) /\ LooksNumeric(right_data)) =>
              (less_ret.value <=> (Scaled(left_data, Len(left_data) + Len(right_data))
                               < Scaled(right_data, Len(left_data) + Len(right_data))))
        /\ ~(LooksNumeric(left_data) /\ LooksNumeric(right_data)) =>
              (less_ret.value <=> CodePointLess(left_data, right_data))
        /\ (left_data = <<"3", ".", "5">> /\ right_data = <<"1", "0">>) => less_ret.value
        /\ (left_data = <<"1", "2">> /\ right_data = <<"a", "b", "c">>) => less_ret.value

\* lessThan has compared "3.5" with "10", where the numeric and the text
\* comparison disagree.
C5_Witness ==
    /\ left_data = <<"3", ".", "5">>
    /\ right_data = <<"1", "0">>
    /\ less_ret.called /\ less_ret.value
    /\ ~CodePointLess(left_data, right_data)

(***************************************************************************)
(* LineListTableModel: the cell cache and its accessors                    *)
(***************************************************************************)

\* The column names imported from ..core.linelist.
WAVELENGTH_COLUMN == "Wavelength"
ERROR_COLUMN == "Error"

\* A cell of a row: a float (the modelled ones have an integral value >= 0),
\* a str (a sequence of characters) or a QColor (<<r, g, b>>).
FloatCell(v) == [kind |-> "float", float |-> v]
StrCell(t)   == [kind |-> "str", str |-> t]
ColorCell(c) == [kind |-> "QColor", rgb |-> c]

\* str(n) for an int n >= 0: its decimal digits.
RECURSIVE StrInt(_)
StrInt(n) ==
    IF n < 10 THEN <<DigitChars[n + 1]>>
    ELSE Append(StrInt(n \div 10), DigitChars[(n % 10) + 1])

\* str(v) for a float of integral value v >= 0, as in str(4500.0) = "4500.0".
StrFloat(v) == StrInt(v) \o <<".", "0">>

\* The characters of a palette name.
NameText(name) ==
    CASE name = "black"      -> <<"b", "l", "a", "c", "k">>
      [] name = "red"        -> <<"r", "e", "d">>
      [] name = "green"      -> <<"g", "r", "e", "e", "n">>
      [] name = "blue"       -> <<"b", "l", "u", "e">>
      [] name = "cyan"       -> <<"c", "y", "a", "n">>
      [] name = "magenta"    -> <<"m", "a", "g", "e", "n", "t", "a">>
      [] name = "dark red"   -> <<"d", "a", "r", "k", " ", "r", "e", "d">>
      [] name = "dark green" -> <<"d", "a", "r", "k", " ", "g", "r", "e", "e", "n">>
      [] name = "dark blue"  -> <<"d", "a", "r", "k", " ", "b", "l", "u", "e">>
      [] OTHER               -> <<"?">>

\* The mutant of CellText: a QColor cell is stored as a fixed name instead
\* of the nearest one.
CellTextFirstColor(c) ==
    IF c.kind = "QColor" THEN NameText(ID_COLORS[1].name)
    ELSE IF c.kind = "float" THEN StrFloat(c.float)
    ELSE c.str

\* The body of the inner loop: QVariant(key) for a QColor cell,
\* QVariant(str(cell)) for any other.
CellText(c) ==
    IF c.kind = "QColor" THEN NameText(ColorName(c.rgb))
    ELSE IF c.kind = "float" THEN StrFloat(c.float)
    ELSE c.str

\* cells, after "for rindex in range(len(row))".
RowTexts(row) == [rindex \in 1..Len(row) |-> CellText(row[rindex])]

\* "for row in self._linelist" from row i on. m carries _row_cells, _nrows
\* and _ncols; the two counts are set inside the loop body, after the row
\* was appended, from len(self._row_cells) and len(self._row_cells[0]).
\* probes counts the evaluations of self._row_cells[0].
RECURSIVE BuildRows(_, _, _)
BuildRows(rows, i, m) ==
    IF i > Len(rows) THEN m
    ELSE LET cached == Append(m.row_cells, RowTexts(rows[i]))
         IN  BuildRows(rows, i + 1,
                       [row_cells |-> cached,
                        nrows     |-> Len(cached),
                        ncols     |-> Len(cached[1]),
                        probes    |-> m.probes + 1])

\* The mutant of BuildModel: the two counts are taken once, after the loop,
\* so that self._row_cells[0] is evaluated for an empty cache as well.
BuildModelCountsAfterLoop(rows) ==
    LET m == BuildRows(rows, 1, [row_cells |-> <<>>, nrows |-> 0, ncols |-> 0, probes |-> 0])
    IN  [m EXCEPT !.probes = 1]

\* LineListTableModel.__init__: _nrows = 0, _ncols = 0, _row_cells = [],
\* then the loop over the rows.
BuildModel(rows) ==
    BuildRows(rows, 1, [row_cells |-> <<>>, nrows |-> 0, ncols |-> 0, probes |-> 0])

\* s[i] for a Python list s and an int i: a negative i counts from the end,
\* and an i outside -len(s) .. len(s)-1 raises IndexError.
PyIndexOk(s, i) == -Len(s) <= i /\ i < Len(s)
PyIndex(s, i) == IF i < 0 THEN s[i + Len(s) + 1] ELSE s[i + 1]

\* linelist.tooltips is None or a list: NoTooltips is the None, Tooltips(l)
\* the list l. Its entries are texts or None.
NoTooltips == [present |-> FALSE, items |-> <<>>]
Tooltips(l) == [present |-> TRUE, items |-> l]

\* bool(x) for x a list or None: None and the empty list are false.
Truthy(x) == x.present /\ x.items # <<>>

\* LineListTableModel.data(index, role), index carrying (row, column).
data(cache, row, column, role) ==
    IF role # "DisplayRole" THEN [raised |-> "", value |-> "QVariant()"]
    ELSE IF ~PyIndexOk(cache, row) THEN [raised |-> "IndexError", value |-> ""]
    ELSE IF ~PyIndexOk(PyIndex(cache, row), column)
         THEN [raised |-> "IndexError", value |-> ""]
    ELSE [raised |-> "", value |-> PyIndex(PyIndex(cache, row), column)]

\* str(result) in headerData: result is a str or None.
StrOf(result) == IF result = None THEN NoneText ELSE result

\* LineListTableModel.headerData(section, orientation, role) on the line
\* list ll the model refers to.
headerData(ll, section, orientation, role) ==
    IF role = "DisplayRole" /\ orientation = "Horizontal"
    THEN IF PyIndexOk(ll.colnames, section)
         THEN [raised |-> "", value |-> PyIndex(ll.colnames, section)]
         ELSE [raised |-> "IndexError", value |-> ""]
    ELSE IF role = "ToolTipRole" /\ orientation = "Horizontal"
    THEN IF ~PyIndexOk(ll.colnames, section)
         THEN [raised |-> "IndexError", value |-> ""]
         ELSE IF PyIndex(ll.colnames, section) \in {WAVELENGTH_COLUMN, ERROR_COLUMN}
         THEN [raised |-> "", value |-> StrOf(PyIndex(ll.units, section))]
         ELSE IF Truthy(ll.tooltips)
         THEN IF PyIndexOk(ll.tooltips.items, section)
              THEN [raised |-> "", value |-> StrOf(PyIndex(ll.tooltips.items, section))]
              ELSE [raised |-> "IndexError", value |-> ""]
         ELSE [raised |-> "", value |-> ""]
    ELSE [raised |-> "", value |-> "QAbstractTableModel.headerData"]

\* The mutant of rowCount: the count is taken from the source at each call.
rowCountLive(ll, n) == Len(ll.rows)

\* LineListTableModel.rowCount on a model holding _nrows = n and referring
\* to the line list ll.
rowCount(ll, n) == n

\* LineListTableModel.columnCount, likewise.
columnCount(ll, n) == n

(***************************************************************************)
(* SpecTable: a model built from a line list, its accessors called, and    *)
(* the line list changed behind it.                                        *)
(***************************************************************************)

MaxRows == 2

\* The columns of the modelled line lists, with the values their cells take.
WaveColumn(values) ==
    [name |-> WAVELENGTH_COLUMN, unit |-> "Angstrom",
     cells |-> {FloatCell(v) : v \in values}]
ErrorColumn ==
    [name |-> ERROR_COLUMN, unit |-> "Angstrom", cells |-> {FloatCell(1)}]
SpeciesColumn ==
    [name |-> "Species", unit |-> None, cells |-> {StrCell(<<"a", "b", "c">>)}]
ColorColumn ==
    [name |-> "color", unit |-> None,
     cells |-> {ColorCell(<<250, 10, 10>>), ColorCell(<<64, 0, 0>>)}]

Schemas ==
    { <<WaveColumn({3000, 4500}), SpeciesColumn>>,
      <<WaveColumn({4500}), ErrorColumn, ColorColumn>>,
      <<SpeciesColumn>> }

\* The widest schema's number of columns.
MaxCols == CHOOSE n \in 1..8 : /\ \E schema \in Schemas : Len(schema) = n
                               /\ \A schema \in Schemas : Len(schema) <= n

\* The rows a schema allows: one cell of each column.
RowsOf(schema) ==
    {row \in [1..Len(schema) -> UNION {schema[i].cells : i \in 1..Len(schema)}] :
        \A i \in 1..Len(schema) : row[i] \in schema[i].cells}

\* The tooltips a line list may carry: none at all, an empty list, one text
\* per column, a list whose last entry is None, a list one entry short.
TooltipsOf(schema) ==
    LET n == Len(schema)
    IN  { NoTooltips,
          Tooltips(<<>>),
          Tooltips([i \in 1..n |-> "tip"]),
          Tooltips([i \in 1..n |-> IF i = n THEN None ELSE "tip"]),
          Tooltips([i \in 1..(n - 1) |-> "tip"]) }

LineLists ==
    UNION { { [name     |-> "list",
               colnames |-> [i \in 1..Len(schema) |-> schema[i].name],
               units    |-> [i \in 1..Len(schema) |-> schema[i].unit],
               tooltips |-> tips,
               rows     |-> rows] :
                 rows \in SeqsUpTo(RowsOf(schema), MaxRows),
                 tips \in TooltipsOf(schema) } : schema \in Schemas }

\* The calls of data: every (row, column) around the table for the display
\* role, among them the (-1, -1) of an invalid index, and one call for
\* another role.
DataCalls ==
    ((-(MaxRows + 1)..MaxRows) \X (-1..MaxCols) \X {"DisplayRole"})
        \cup {<<0, 0, "ToolTipRole">>}

NoCall == [op |-> "none"]

InitTable ==
    /\ linelist \in LineLists
    /\ built_from = [built |-> FALSE, rows |-> <<>>, probes |-> 0]
    /\ nrows = 0
    /\ ncols = 0
    /\ row_cells = <<>>
    /\ ret = NoCall
    /\ ColorIdle /\ SortIdle /\ WindowIdle

\* table_model = LineListTableModel(linelist)
Construct ==
    /\ ~built_from.built
    /\ LET m == BuildModel(linelist.rows)
       IN  /\ row_cells' = m.row_cells
           /\ nrows' = m.nrows
           /\ ncols' = m.ncols
           /\ built_from' = [built |-> TRUE, rows |-> linelist.rows, probes |-> m.probes]
    /\ UNCHANGED <<linelist, ret, colorVars, sortVars, windowVars>>

\* A row is added to the line list after the model was built: a copy of one
\* of its rows.
SourceAddRow ==
    /\ built_from.built
    /\ linelist.rows # <<>>
    /\ Len(linelist.rows) < MaxRows
    /\ linelist' = [linelist EXCEPT !.rows = Append(@, @[1])]
    /\ UNCHANGED <<built_from, nrows, ncols, row_cells, ret,
                   colorVars, sortVars, windowVars>>

\* The last row is removed from the line list after the model was built.
SourceRemoveRow ==
    /\ built_from.built
    /\ linelist.rows # <<>>
    /\ linelist' = [linelist EXCEPT !.rows = SubSeq(@, 1, Len(@) - 1)]
    /\ UNCHANGED <<built_from, nrows, ncols, row_cells, ret,
                   colorVars, sortVars, windowVars>>

CallRowCount ==
    /\ built_from.built
    /\ ret' = [op |-> "rowCount", value |-> rowCount(linelist, nrows),
               live |-> Len(linelist.rows)]
    /\ UNCHANGED <<linelist, built_from, nrows, ncols, row_cells,
                   colorVars, sortVars, windowVars>>

CallColumnCount ==
    /\ built_from.built
    /\ ret' = [op |-> "columnCount", value |-> columnCount(linelist, ncols),
               live |-> Len(linelist.rows)]
    /\ UNCHANGED <<linelist, built_from, nrows, ncols, row_cells,
                   colorVars, sortVars, windowVars>>

\* data(index, role) for an index carrying (row, column); an invalid
\* QModelIndex carries (-1, -1).
CallData(row, column, role) ==
    /\ built_from.built
    /\ ret' = [op |-> "data", row |-> row, column |-> column, role |-> role,
               result |-> data(row_cells, row, column, role)]
    /\ UNCHANGED <<linelist, built_from, nrows, ncols, row_cells,
                   colorVars, sortVars, windowVars>>

CallHeaderData(section, orientation, role) ==
    /\ built_from.built
    /\ ret' = [op |-> "headerData", section |-> section,
               orientation |-> orientation, role |-> role,
               result |-> headerData(linelist, section, orientation, role)]
    /\ UNCHANGED <<linelist, built_from, nrows, ncols, row_cells,
                   colorVars, sortVars, windowVars>>

NextTable ==
    \/ Construct
    \/ SourceAddRow
    \/ SourceRemoveRow
    \/ CallRowCount
    \/ CallColumnCount
    \/ \E call \in DataCalls : CallData(call[1], call[2], call[3])
    \/ \E section \in 0..(Len(linelist.colnames) - 1),
          orientation \in {"Horizontal", "Vertical"},
          role \in {"DisplayRole", "ToolTipRole"} :
          CallHeaderData(section, orientation, role)

SpecTable == InitTable /\ [][NextTable]_vars

\* C2: rowCount() is the number of rows the source had when the model was
\* built, and every call of rowCount() and columnCount() returns the value
\* fixed at construction, also when rows were added to or removed from the
\* source since.
C2_CountsFixedAtConstruction ==
    built_from.built =>
        /\ nrows = Len(built_from.rows)
        /\ ncols = (IF built_from.rows = <<>> THEN 0 ELSE Len(built_from.rows[1]))
        /\ ret.op = "rowCount" => ret.value = Len(built_from.rows)
        /\ ret.op = "columnCount" =>
              ret.value = (IF built_from.rows = <<>> THEN 0 ELSE Len(built_from.rows[1]))

\* rowCount() was called when the source no longer had the number of rows it
\* was built from.
C2_Witness ==
    /\ built_from.built
    /\ ret.op = "rowCount"
    /\ ret.live # Len(built_from.rows)
    /\ ret.value = Len(built_from.rows)

\* C3: data(index) for the display role with (row, column) outside
\* 0 <= row < rowCount(), 0 <= column < columnCount() fails with a bounds
\* violation and returns no cell text.
C3_OutOfBoundsFails ==
    (/\ ret.op = "data"
     /\ ret.role = "DisplayRole"
     /\ ~(0 <= ret.row /\ ret.row < nrows /\ 0 <= ret.column /\ ret.column < ncols))
    => ret.result.raised = "IndexError"

\* The text the cache must hold for a source cell: the first nearest palette
\* name for a color, a text that reads back as the number for a float, the
\* text itself for a str.
TextMatchesCell(text, c) ==
    CASE c.kind = "QColor" ->
            \E i \in 1..Len(ID_COLORS) :
                /\ FirstNearest(ID_COLORS[i].name, c.rgb)
                /\ text = NameText(ID_COLORS[i].name)
      [] c.kind = "float" ->
            /\ Float(text).ok
            /\ Float(text).num = c.float * Pow10(Float(text).exp)
      [] c.kind = "str" -> text = c.str

\* C4: after construction the cache has one row per source row and one cell
\* per source cell, in source order, each holding the resolved palette name
\* of a color cell and the string representation of any other cell.
C4_CacheMirrorsSource ==
    built_from.built =>
        /\ Len(row_cells) = Len(built_from.rows)
        /\ \A r \in 1..Len(row_cells) :
              /\ Len(row_cells[r]) = Len(built_from.rows[r])
              /\ \A c \in 1..Len(row_cells[r]) :
                    TextMatchesCell(row_cells[r][c], built_from.rows[r][c])

\* A model built from two rows of three cells, the second row's color cell
\* (250, 10, 10) cached as "red" beside the float 4500 cached as "4500.0".
C4_Witness ==
    /\ built_from.built
    /\ Len(row_cells) = 2
    /\ Len(built_from.rows[2]) = 3
    /\ built_from.rows[2][3] = ColorCell(<<250, 10, 10>>)
    /\ row_cells[2][3] = NameText("red")
    /\ row_cells[2][1] = <<"4", "5", "0", "0", ".", "0">>

\* C6: the horizontal-header tooltip is the unit string for a column named
\* WAVELENGTH_COLUMN or ERROR_COLUMN; for any other column it is the
\* configured tooltip text, and the empty string when the tooltip collection
\* or the column's own entry is absent or None.
C6_TooltipOrEmpty ==
    (/\ ret.op = "headerData"
     /\ ret.role = "ToolTipRole"
     /\ ret.orientation = "Horizontal")
    => LET k == ret.section + 1
           tips == linelist.tooltips
           absent == \/ ~tips.present
                     \/ k > Len(tips.items)
                     \/ tips.items[k] = None
       IN  /\ ret.result.raised = ""
           /\ ret.result.value =
                (IF linelist.colnames[k] \in {WAVELENGTH_COLUMN, ERROR_COLUMN}
                 THEN linelist.units[k]
                 ELSE IF absent THEN "" ELSE tips.items[k])

(***************************************************************************)
(* LineListsWindow: the wavelength-range dialog, the views and the tabs    *)
(***************************************************************************)

\* A bound of a range is None or an astropy Quantity: NoBound is the None,
\* Quantity(v) the Quantity of value v (the unit is the plot's throughout).
NoBound == <<>>
Quantity(v) == <<v>>

\* A QLineEdit of the dialog is modelled by the number its text reads as:
\* Text(v) is the text "%.2f" % v, and NoText a text the validator does not
\* accept (an empty field).
NoText == <<>>
Text(v) == <<v>>

\* The validator of both fields: QDoubleValidator with bottom 0.0.
hasAcceptableInput(text) == text # NoText /\ text[1] >= 0

\* bool(x) for a bound x of a range. bool(None) is False. bool of a Quantity
\* is answered by the installed astropy, not by this file: by the number's
\* value (numpy's rule for a 0-d array), always True, or a ValueError.
Bool(x) ==
    IF x = NoBound THEN "False"
    ELSE CASE quantity_bool = "value"  -> IF x[1] # 0 THEN "True" ELSE "False"
           [] quantity_bool = "always" -> "True"
           [] quantity_bool = "raises" -> "ValueError"

\* "waverange[0] and waverange[1]" as the condition of an if: the second
\* operand is evaluated only when the first is true.
BothBounds(waverange) ==
    IF Bool(waverange[1]) = "True" THEN Bool(waverange[2]) ELSE Bool(waverange[1])

\* The position of the wavelength column of a line list.
WaveIndex(ll) == CHOOSE i \in 1..Len(ll.colnames) : ll.colnames[i] = WAVELENGTH_COLUMN

\* line_list.extract_range(r): the line list of the rows whose wavelength
\* lies within the bounds of r, an absent bound leaving its side open.
extract_range(ll, r) ==
    [ll EXCEPT !.rows =
        SelectSeq(@, LAMBDA row :
            /\ (r[1] # NoBound => r[1][1] <= row[WaveIndex(ll)].float)
            /\ (r[2] # NoBound => row[WaveIndex(ll)].float <= r[2][1]))]

\* The mutant of get_range_from_textfields: a single acceptable field gives
\* a range with that one bound.
get_range_one_sided(min_text, max_text) ==
    IF hasAcceptableInput(min_text) /\ hasAcceptableInput(max_text)
    THEN IF max_text[1] # min_text[1]
         THEN <<Quantity(min_text[1]), Quantity(max_text[1])>>
         ELSE <<NoBound, NoBound>>
    ELSE << IF hasAcceptableInput(min_text) THEN Quantity(min_text[1]) ELSE NoBound,
            IF hasAcceptableInput(max_text) THEN Quantity(max_text[1]) ELSE NoBound >>

\* The mutant of get_range_from_textfields for equal bounds: two equal
\* acceptable fields give the single-point range.
get_range_single_point(min_text, max_text) ==
    IF hasAcceptableInput(min_text) /\ hasAcceptableInput(max_text)
    THEN <<Quantity(min_text[1]), Quantity(max_text[1])>>
    ELSE <<NoBound, NoBound>>

\* LineListsWindow._get_range_from_textfields
get_range_from_textfields(min_text, max_text) ==
    IF hasAcceptableInput(min_text) /\ hasAcceptableInput(max_text)
    THEN IF max_text[1] # min_text[1]
         THEN <<Quantity(min_text[1]), Quantity(max_text[1])>>
         ELSE <<NoBound, NoBound>>
    ELSE <<NoBound, NoBound>>

\* The mutant of compute_nlines_in_waverange: the label gets the number of
\* lines of the whole list.
compute_nlines_unfiltered(line_list, min_text, max_text, label) ==
    LET r == get_range_from_textfields(min_text, max_text)
    IN  IF r[1] # NoBound \/ r[2] # NoBound
        THEN [label |-> StrInt(Len(line_list.rows)), extracted |-> <<r>>]
        ELSE [label |-> label, extracted |-> <<>>]

\* LineListsWindow._compute_nlines_in_waverange: the text of the label it
\* returns, and the range it called extract_range with (<<>> when it made no
\* call).
compute_nlines_in_waverange(line_list, min_text, max_text, label) ==
    LET r == get_range_from_textfields(min_text, max_text)
    IN  IF r[1] # NoBound \/ r[2] # NoBound
        THEN [label |-> StrInt(Len(extract_range(line_list, r).rows)),
              extracted |-> <<r>>]
        ELSE [label |-> label, extracted |-> <<>>]

\* QTabWidget.insertTab(index, widget, text) on the tab texts.
insertTab(tabs, index, text) ==
    IF index < 0 \/ index >= Len(tabs) THEN Append(tabs, text)
    ELSE SubSeq(tabs, 1, index) \o <<text>> \o SubSeq(tabs, index + 1, Len(tabs))

\* QTabWidget.removeTab(index): nothing happens for an index out of range.
removeTab(tabs, index) ==
    IF index < 0 \/ index >= Len(tabs) THEN tabs
    ELSE SubSeq(tabs, 1, index) \o SubSeq(tabs, index + 2, Len(tabs))

\* LineListsWindow._build_view(line_list, index, waverange): the tabs after
\* it, what it returns (<<>> for None, else <<the line list>>), the rows the
\* table model was built from and the range extract_range was called with.
build_view(tabs, line_list, index, waverange) ==
    LET extract == BothBounds(waverange) = "True"
        shown == IF extract THEN extract_range(line_list, waverange) ELSE line_list
        table_model == BuildModel(shown.rows)
    IN  IF rowCount(shown, table_model.nrows) > 0
        THEN [tabs |-> insertTab(tabs, index, shown.name),
              returned |-> <<shown>>,
              model_rows |-> <<shown.rows>>,
              extracted |-> IF extract THEN <<waverange>> ELSE <<>>]
        ELSE [tabs |-> tabs,
              returned |-> <<>>,
              model_rows |-> <<shown.rows>>,
              extracted |-> IF extract THEN <<waverange>> ELSE <<>>]

(***************************************************************************)
(* SpecWindow: line lists selected or opened through the range dialog, the *)
(* dialog's fields edited, and the tabs of the window closed and rebuilt.  *)
(***************************************************************************)

MaxTabs == 1         \* tabs of the main tab widget before a new one is asked for
MaxPlotLists == 1    \* entries of plot_window.linelists before a file is opened

\* The values typed into the dialog's fields.
WaveValues == {0, 100, 4000, 5000}

\* What plot_window._find_wavelength_range() returns.
PlotRanges == { <<Quantity(4000), Quantity(5000)>> }

LineRow(wave) == <<FloatCell(wave), StrCell(<<"a", "b", "c">>)>>

LineList(name, waves) ==
    [name     |-> name,
     colnames |-> <<WAVELENGTH_COLUMN, "Species">>,
     units    |-> <<"Angstrom", None>>,
     tooltips |-> NoTooltips,
     rows     |-> [i \in 1..Len(waves) |-> LineRow(waves[i])]]

\* linelist.get_from_cache(index - 1), for index 1 .. Len(LineListCache).
LineListCache == << LineList("cached", <<4500, 6000, 3000>>) >>

\* linelist.get_from_file(...) for the files the user may pick.
LineListFiles == << LineList("file", <<4500>>) >>

PLOTTED == "Plotted"

\* The text linelists_waverange.ui gives nlines_label.
UiLabel == <<"-">>

\* The dialog. defined is history kept for the properties, no field of the
\* program: the last range a dialog returned with both bounds, the range the
\* user last defined ((None, None) until there is one).
DialogClosed ==
    [open |-> FALSE, origin |-> "", line_list |-> LineListCache[1],
     min_text |-> NoText, max_text |-> NoText, nlines_label |-> UiLabel,
     defined |-> <<NoBound, NoBound>>]

InitWindow ==
    /\ quantity_bool \in {"value", "always", "raises"}
    /\ wave_range = <<NoBound, NoBound>>
    /\ dialog = DialogClosed
    /\ tabWidget = <<>>
    /\ plot_linelists = <<>>
    /\ wret = [op |-> "init"]
    /\ ColorIdle /\ TableIdle /\ SortIdle

\* _get_waverange_from_dialog up to dialog.exec_(): wave_range is taken from
\* the plot window when one of its bounds is None, and the dialog is built
\* (_build_waverange_dialog) with the two fields showing it and the label
\* computed once.
OpenDialog(origin, line_list, plot_range) ==
    /\ ~dialog.open
    /\ LET range == IF wave_range[1] = NoBound \/ wave_range[2] = NoBound
                    THEN plot_range ELSE wave_range
           min_text == Text(range[1][1])
           max_text == Text(range[2][1])
           counted == compute_nlines_in_waverange(line_list, min_text, max_text, UiLabel)
       IN  /\ wave_range' = range
           /\ dialog' = [open |-> TRUE, origin |-> origin, line_list |-> line_list,
                         min_text |-> min_text, max_text |-> max_text,
                         nlines_label |-> counted.label,
                         defined |-> dialog.defined]
           /\ wret' = [op |-> "compute", extracted |-> counted.extracted,
                       label_before |-> UiLabel]
    /\ UNCHANGED <<quantity_bool, tabWidget, plot_linelists,
                   colorVars, tableVars, sortVars>>

\* LineListsWindow._lineList_selection_change(index), until the dialog shows.
\* Entry 0 of the selector is the "Select line list" message; the
\* setCurrentIndex(0) that ends the handler calls it again with that entry.
\* The units of the line lists convert to the plot's, so that extract_range
\* raises no UnitConversionError.
lineList_selection_change(index, plot_range) ==
    IF index > 0
    THEN /\ Len(tabWidget) < MaxTabs
         /\ OpenDialog("selection", LineListCache[index], plot_range)
    ELSE UNCHANGED vars

\* LineListsWindow._open_linelist_file(None), until the dialog shows. file 0
\* is the file dialog dismissed with no file chosen.
open_linelist_file(file, plot_range) ==
    IF file > 0
    THEN /\ Len(tabWidget) < MaxTabs
         /\ Len(plot_linelists) < MaxPlotLists
         /\ OpenDialog("file", LineListFiles[file], plot_range)
    ELSE UNCHANGED vars

\* The user finishes editing one field with a text the validator accepts:
\* editingFinished runs _compute_nlines_in_waverange.
EditingFinished(field, v) ==
    /\ dialog.open
    /\ LET min_text == IF field = "min_text" THEN Text(v) ELSE dialog.min_text
           max_text == IF field = "max_text" THEN Text(v) ELSE dialog.max_text
           counted == compute_nlines_in_waverange(dialog.line_list, min_text, max_text,
                                                  dialog.nlines_label)
       IN  /\ dialog' = [dialog EXCEPT !.min_text = min_text,
                                       !.max_text = max_text,
                                       !.nlines_label = counted.label]
           /\ wret' = [op |-> "compute", extracted |-> counted.extracted,
                       label_before |-> dialog.nlines_label]
    /\ UNCHANGED <<quantity_bool, wave_range, tabWidget, plot_linelists,
                   colorVars, tableVars, sortVars>>

\* The user empties one field: the validator does not accept the text, and
\* the line edit emits no editingFinished.
ClearField(field) ==
    /\ dialog.open
    /\ dialog' = IF field = "min_text" THEN [dialog EXCEPT !.min_text = NoText]
                                       ELSE [dialog EXCEPT !.max_text = NoText]
    /\ wret' = [op |-> "clear"]
    /\ UNCHANGED <<quantity_bool, wave_range, tabWidget, plot_linelists,
                   colorVars, tableVars, sortVars>>

\* dialog.exec_() returns: _build_waverange_dialog returns the range of the
\* fields (accepted) or (None, None), _get_waverange_from_dialog stores it in
\* wave_range, and the handler that opened the dialog goes on: it builds the
\* view when "wave_range[0] and wave_range[1]" is true, and
\* _open_linelist_file appends what _build_view returned to
\* plot_window.linelists. A ValueError of the condition ends the handler.
CloseDialog(accepted) ==
    /\ dialog.open
    /\ LET wrange == IF accepted
                     THEN get_range_from_textfields(dialog.min_text, dialog.max_text)
                     ELSE <<NoBound, NoBound>>
           test == BothBounds(wrange)
           view == build_view(tabWidget, dialog.line_list, 0, wrange)
       IN  /\ wave_range' = wrange
           /\ dialog' = [dialog EXCEPT !.open = FALSE,
                                       !.defined = IF wrange = <<NoBound, NoBound>>
                                                   THEN @ ELSE wrange]
           /\ IF test = "True"
              THEN /\ tabWidget' = view.tabs
                   /\ plot_linelists' =
                        IF dialog.origin = "file"
                        THEN Append(plot_linelists,
                                    IF view.returned = <<>> THEN <<>>
                                    ELSE <<Len(view.returned[1].rows)>>)
                        ELSE plot_linelists
                   /\ wret' = [op |-> IF accepted THEN "accept" ELSE "cancel",
                               test |-> test,
                               model_rows |-> view.model_rows,
                               extracted |-> view.extracted]
              ELSE /\ UNCHANGED <<tabWidget, plot_linelists>>
                   /\ wret' = [op |-> IF accepted THEN "accept" ELSE "cancel",
                               test |-> test,
                               model_rows |-> <<>>,
                               extracted |-> <<>>]
    /\ UNCHANGED <<quantity_bool, colorVars, tableVars, sortVars>>

\* LineListsWindow.tab_close(index), for the index of a tab.
tab_close(index) ==
    /\ ~dialog.open
    /\ index < Len(tabWidget)
    /\ tabWidget' = removeTab(tabWidget, index)
    /\ wret' = [op |-> "tab_close", tabs_before |-> tabWidget]
    /\ UNCHANGED <<quantity_bool, wave_range, dialog, plot_linelists,
                   colorVars, tableVars, sortVars>>

\* The index of the first tab whose text is PLOTTED, or -1.
PlottedIndex(tabs) ==
    IF \E i \in 1..Len(tabs) : tabs[i] = PLOTTED
    THEN (CHOOSE i \in 1..Len(tabs) : tabs[i] = PLOTTED /\ \A j \in 1..(i - 1) : tabs[j] # PLOTTED) - 1
    ELSE -1

\* LineListsWindow.displayPlottedLines(linelist)
displayPlottedLines ==
    /\ ~dialog.open
    /\ (PlottedIndex(tabWidget) >= 0 \/ Len(tabWidget) <= MaxTabs)
    /\ tabWidget' =
         IF PlottedIndex(tabWidget) >= 0
         THEN insertTab(removeTab(tabWidget, PlottedIndex(tabWidget)),
                        PlottedIndex(tabWidget), PLOTTED)
         ELSE insertTab(tabWidget, Len(tabWidget), PLOTTED)
    /\ wret' = [op |-> "displayPlottedLines", tabs_before |-> tabWidget]
    /\ UNCHANGED <<quantity_bool, wave_range, dialog, plot_linelists,
                   colorVars, tableVars, sortVars>>

\* LineListsWindow.erasePlottedLines
erasePlottedLines ==
    /\ ~dialog.open
    /\ LET index_last == Len(tabWidget) - 1
       IN  tabWidget' = removeTab(tabWidget, index_last)
    /\ wret' = [op |-> "erasePlottedLines", tabs_before |-> tabWidget]
    /\ UNCHANGED <<quantity_bool, wave_range, dialog, plot_linelists,
                   colorVars, tableVars, sortVars>>

NextWindow ==
    \/ \E index \in 0..Len(LineListCache), plot_range \in PlotRanges :
          lineList_selection_change(index, plot_range)
    \/ \E file \in 0..Len(LineListFiles), plot_range \in PlotRanges :
          open_linelist_file(file, plot_range)
    \/ \E field \in {"min_text", "max_text"}, v \in WaveValues :
          EditingFinished(field, v)
    \/ \E field \in {"min_text", "max_text"} : ClearField(field)
    \/ \E accepted \in BOOLEAN : CloseDialog(accepted)
    \/ \E index \in 0..MaxTabs : tab_close(index)
    \/ displayPlottedLines
    \/ erasePlottedLines

SpecWindow == InitWindow /\ [][NextWindow]_vars

\* The two fields of the dialog (kept as they were when it closed).
BothAcceptable == hasAcceptableInput(dialog.min_text) /\ hasAcceptableInput(dialog.max_text)
OneAcceptable == hasAcceptableInput(dialog.min_text) # hasAcceptableInput(dialog.max_text)

\* The range with the bounds of the acceptable fields only.
FieldBounds ==
    << IF hasAcceptableInput(dialog.min_text) THEN Quantity(dialog.min_text[1]) ELSE NoBound,
       IF hasAcceptableInput(dialog.max_text) THEN Quantity(dialog.max_text[1]) ELSE NoBound >>

\* The wavelengths of the rows of a line list.
Waves(ll) == [i \in 1..Len(ll.rows) |-> ll.rows[i][WaveIndex(ll)].float]

\* The number of rows of ll whose wavelength lies in lo .. hi.
RowsWithin(ll, lo, hi) ==
    Cardinality({i \in 1..Len(ll.rows) : lo <= Waves(ll)[i] /\ Waves(ll)[i] <= hi})

\* C7: after _compute_nlines_in_waverange ran with both fields acceptable
\* and equal, the count shown is the total number of rows of the line list.
C7_DegenerateCountsAllRows ==
    (/\ dialog.open
     /\ wret.op = "compute"
     /\ BothAcceptable
     /\ dialog.min_text = dialog.max_text)
    => dialog.nlines_label = StrInt(Len(dialog.line_list.rows))

C9_AcceptedRangeBuildsFilteredView ==
    (/\ ~dialog.open
     /\ wret.op = "accept"
     /\ BothAcceptable
     /\ dialog.min_text # dialog.max_text)
    => /\ wret.extracted = <<FieldBounds>>
       /\ wret.model_rows = <<extract_range(dialog.line_list, FieldBounds).rows>>

\* C10: after _compute_nlines_in_waverange ran with two acceptable,
\* different bounds, the count shown is the number of rows of the line list
\* within the bounds; it is 1 for the wavelengths 4500, 6000, 3000 and the
\* range (4000, 5000).
C10_CountIsRowsInRange ==
    (/\ dialog.open
     /\ wret.op = "compute"
     /\ BothAcceptable
     /\ dialog.min_text # dialog.max_text)
    => /\ dialog.nlines_label =
            StrInt(RowsWithin(dialog.line_list, dialog.min_text[1], dialog.max_text[1]))
       /\ (/\ Waves(dialog.line_list) = <<4500, 6000, 3000>>
           /\ dialog.min_text = Text(4000)
           /\ dialog.max_text = Text(5000)) => dialog.nlines_label = <<"1">>

\* The count was computed for the list 4500, 6000, 3000 and the range
\* (4000, 5000).
C10_Witness ==
    /\ dialog.open
    /\ wret.op = "compute"
    /\ Waves(dialog.line_list) = <<4500, 6000, 3000>>
    /\ dialog.min_text = Text(4000)
    /\ dialog.max_text = Text(5000)
    /\ dialog.nlines_label = <<"1">>

\* C11: with both fields acceptable and equal, _get_range_from_textfields
\* returns (None, None) and never a single-point range, and its callers
\* filter nothing: the count handler calls no extract_range and leaves the
\* label alone, and on acceptance wave_range is (None, None), the test of
\* the handler is false and extract_range is not called.
C11_EqualBoundsAreNoSelection ==
    (BothAcceptable /\ dialog.min_text = dialog.max_text) =>
        /\ get_range_from_textfields(dialog.min_text, dialog.max_text) = <<NoBound, NoBound>>
        /\ (dialog.open /\ wret.op = "compute") =>
              /\ wret.extracted = <<>>
              /\ dialog.nlines_label = wret.label_before
        /\ (~dialog.open /\ wret.op = "accept") =>
              /\ wave_range = <<NoBound, NoBound>>
              /\ wret.test = "False"
              /\ wret.extracted = <<>>

\* The dialog was accepted with both fields reading 4000.
C11_Witness ==
    /\ ~dialog.open
    /\ wret.op = "accept"
    /\ dialog.min_text = Text(4000)
    /\ dialog.max_text = Text(4000)
    /\ wave_range = <<NoBound, NoBound>>

\* C12: a model built from a source with no rows holds _nrows = 0 and
\* _ncols = 0 and an empty cache, rowCount() and columnCount() return 0, and
\* its construction never evaluated self._row_cells[0].
C12_EmptySourceIsSafe ==
    (built_from.built /\ built_from.rows = <<>>) =>
        /\ nrows = 0
        /\ ncols = 0
        /\ row_cells = <<>>
        /\ built_from.probes = 0
        /\ ret.op \in {"rowCount", "columnCount"} => ret.value = 0

\* columnCount() was called on a model built from a source with no rows.
C12_Witness ==
    /\ built_from.built
    /\ built_from.rows = <<>>
    /\ built_from.probes = 0
    /\ ret.op = "columnCount"
    /\ ret.value = 0

\* C13: a dialog that opens after the user has defined a range shows that
\* range, and wave_range holds it, whatever became of the dialogs in
\* between (accepted with equal bounds or invalid input, or cancelled);
\* wave_range is taken from the plot window only while no range was defined.
C13_UserRangePreserved ==
    [][ (/\ ~dialog.open
         /\ dialog'.open
         /\ dialog.defined # <<NoBound, NoBound>>)
        => /\ wave_range' = dialog.defined
           /\ dialog'.min_text = Text(dialog.defined[1][1])
           /\ dialog'.max_text = Text(dialog.defined[2][1]) ]_vars

\* C14: lessThan is a strict order on the cell texts of a column: no cell is
\* less than itself, and when the first cell is less than the second and
\* the second less than the third, the first is less than the third.
C14_StrictOrder ==
    /\ answers[<<1, 1>>] # <<TRUE>>
    /\ (/\ answers[<<1, 2>>] = <<TRUE>>
        /\ answers[<<2, 3>>] = <<TRUE>>
        /\ answers[<<1, 3>>] # <<>>) => answers[<<1, 3>>] = <<TRUE>>

\* The tabs that hold line lists: all but the one labelled PLOTTED.
LineListTabs(tabs) == SelectSeq(tabs, LAMBDA text : text # PLOTTED)

\* C15: erasePlottedLines removes the tab labelled PLOTTED and no other:
\* after it no PLOTTED tab is left, and the line-list tabs are those that
\* were there before it, in the same order.
C15_ErasesOnlyPlotted ==
    wret.op = "erasePlottedLines" =>
        /\ PlottedIndex(tabWidget) = -1
        /\ tabWidget = LineListTabs(wret.tabs_before)

\* C16: plot_window.linelists holds line lists only, each with at least one
\* row: no None was appended for a range that left no row.
C16_OnlyLineListsAppended ==
    \A i \in 1..Len(plot_linelists) :
        /\ plot_linelists[i] # <<>>
        /\ plot_linelists[i][1] >= 1

====
